---- MODULE Spec2Model ----
(***************************************************************************)
(* Model of the static-cdk infrastructure program.                         *)
(*                                                                         *)
(*   bin entry point (orchestrator)  builds the two stacks                 *)
(*   StaticSiteStack                 bucket, OAI, certificate,             *)
(*                                   distribution, DNS records, outputs    *)
(*   CiCdStack                       pipeline (Source, Build), build       *)
(*                                   project with its buildspec, role      *)
(*                                   policies, topic, subscription, rule   *)
(*                                                                         *)
(* The stacks are declarative: the model keeps the declared topologies as  *)
(* values, then lets the provider provision them and run pipeline          *)
(* executions of the declared build specification.                         *)
(***************************************************************************)
EXTENDS Naturals, Sequences, FiniteSets, TLC

VARIABLES
    props,          \* deployment parameters given to StaticSiteStack
    pc,             \* position of the entry point: "start", "static", "synth"
    staticSite,     \* topology declared by StaticSiteStack (NoStack before)
    ciCd,           \* topology declared by CiCdStack (NoStack before)
    status,         \* provisioning status of each stack
    attempts,       \* provisioning attempts made so far
    exports,        \* published outputs: set of [key, value]
    publications,   \* every publication of an output key ever made (a sequence of keys)
    physical,       \* identifiers the provider gave the hosting resources
    resolved,       \* import key -> value the pipeline stack resolved
    execNo,         \* number of pipeline executions started
    execState,      \* state of the current pipeline execution
    phase,          \* build phase of the running build ("none" outside a build)
    cmdIdx,         \* index of the next command of the phase
    buildSucceeding,\* FALSE once a phase of the running build failed
    failedFrom,     \* state in which the current execution failed ("none" if it has not)
    issued,         \* commands the current execution has issued, in order
    content,        \* what the storage target holds: execution number of its last sync
    contentAtStart, \* content when the current execution started
    notified,       \* publications to the alerts topic made by the current execution
    inbox           \* e-mail addresses with the number of alerts delivered

vars == <<props, pc, staticSite, ciCd, status, attempts, exports, publications,
          physical, resolved, execNo, execState, phase, cmdIdx, buildSucceeding,
          failedFrom, issued, content, contentAtStart, notified, inbox>>

(***************************************************************************)
(* Bounds of the model.                                                    *)
(***************************************************************************)
MaxExecutions == 2
MaxAttempts == 2

Domains == {"example.com", "app.example.org"}
DistributionIds == {"E1ABCDEF", "E2GHIJKL"}

NoStack == [declared |-> FALSE]

(***************************************************************************)
(* config-util: identifyResource.                                          *)
(***************************************************************************)
\* Variant: the logical name is dropped.
identifyResource_PrefixOnly(resourcePrefix, resourceId) ==
    resourcePrefix

identifyResource(resourcePrefix, resourceId) ==
    resourcePrefix \o "-" \o resourceId

(***************************************************************************)
(* Values that are resolved by the provider at provisioning time.          *)
(***************************************************************************)
Literal(s) == [kind |-> "literal", id |-> s, attr |-> ""]
Ref(id, attr) == [kind |-> "ref", id |-> id, attr |-> attr]
ImportValue(key) == [kind |-> "import", id |-> key, attr |-> ""]

(***************************************************************************)
(* Entry point: fixed parameters.                                          *)
(***************************************************************************)
accountId == "<<YOUR_ACCOUNT_ID>>"
staticSiteResourcePrefix == "cdk-web-static"
STATIC_SITE_BUCKET_NAME_OUTPUT_ID ==
    identifyResource(staticSiteResourcePrefix, "bucket-name")
STATIC_SITE_DISTRIBUTION_ID_OUTPUT_ID ==
    identifyResource(staticSiteResourcePrefix, "distribution-id")
ciCdResourcePrefix == "cdk-web-cicd"
staticSiteBucket == ImportValue(STATIC_SITE_BUCKET_NAME_OUTPUT_ID)
staticSiteDistributionId == ImportValue(STATIC_SITE_DISTRIBUTION_ID_OUTPUT_ID)
buildAlertEmail == "<<YOUR_EMAIL_ADDRESS>>>"

\* The props object handed to StaticSiteStack; domainName and includeWWW are
\* the deployment's parameters d and w.
StaticSiteProps(d, w) ==
    [ resourcePrefix |-> staticSiteResourcePrefix,
      hostedZoneName |-> "<<YOUR_HOSTED_ZONE_NAME>>",
      domainName |-> d,
      includeWWW |-> w,
      siteSourcePath |-> "../dist",
      staticSiteBucketNameOutputId |-> STATIC_SITE_BUCKET_NAME_OUTPUT_ID,
      staticSiteDistributionIdOutputId |-> STATIC_SITE_DISTRIBUTION_ID_OUTPUT_ID ]

\* Variant: the two imported values are passed under each other's name.
CiCdProps_Swapped ==
    [ account |-> accountId,
      resourcePrefix |-> ciCdResourcePrefix,
      distributionId |-> staticSiteBucket,
      bucket |-> staticSiteDistributionId,
      repo |-> "<<YOUR_REPO_NAME>>",
      repoOwner |-> "<<YOUR_REPO_OWNER>>",
      repoBranch |-> "master",
      githubTokenSecretId |-> "/static-cdk/cicd/github_token",
      buildAlertEmail |-> buildAlertEmail ]

\* Variant: the identifiers are written into the entry point as literals.
CiCdProps_Literals ==
    [ account |-> accountId,
      resourcePrefix |-> ciCdResourcePrefix,
      distributionId |-> Literal("E1ABCDEF"),
      bucket |-> Literal("example.com"),
      repo |-> "<<YOUR_REPO_NAME>>",
      repoOwner |-> "<<YOUR_REPO_OWNER>>",
      repoBranch |-> "master",
      githubTokenSecretId |-> "/static-cdk/cicd/github_token",
      buildAlertEmail |-> buildAlertEmail ]

\* The props object handed to CiCdStack.
CiCdProps ==
    [ account |-> accountId,
      resourcePrefix |-> ciCdResourcePrefix,
      distributionId |-> staticSiteDistributionId,
      bucket |-> staticSiteBucket,
      repo |-> "<<YOUR_REPO_NAME>>",
      repoOwner |-> "<<YOUR_REPO_OWNER>>",
      repoBranch |-> "master",
      githubTokenSecretId |-> "/static-cdk/cicd/github_token",
      buildAlertEmail |-> buildAlertEmail ]

(***************************************************************************)
(* StaticSiteStack: the resources its constructor declares.                *)
(***************************************************************************)
siteDomain(p) == p.domainName
fullSiteDomain(p) == "www." \o siteDomain(p)

cloudfrontOAI(p) ==
    [ id |-> identifyResource(p.resourcePrefix, "cloudfront-OAI"),
      principal |-> Ref(identifyResource(p.resourcePrefix, "cloudfront-OAI"),
                        "cloudFrontOriginAccessIdentityS3CanonicalUserId") ]

\* Variant: the read grant names every principal instead of the OAI.
siteBucketPolicy_AnyPrincipal(p) ==
    { [ actions |-> {"s3:GetObject"},
        resources |-> {[bucket |-> identifyResource(p.resourcePrefix, "site-bucket"),
                        objects |-> "*"]},
        principals |-> {Literal("*")} ] }

\* The statement the constructor adds to the bucket's resource policy.
siteBucketPolicy(p) ==
    { [ actions |-> {"s3:GetObject"},
        resources |-> {[bucket |-> identifyResource(p.resourcePrefix, "site-bucket"),
                        objects |-> "*"]},
        principals |-> {cloudfrontOAI(p).principal} ] }

siteBucket(p) ==
    [ id |-> identifyResource(p.resourcePrefix, "site-bucket"),
      bucketName |-> siteDomain(p),
      websiteIndexDocument |-> "index.html",
      websiteErrorDocument |-> "error.html",
      publicReadAccess |-> FALSE,
      blockPublicAccess |-> "BLOCK_ALL",
      policy |-> siteBucketPolicy(p) ]

\* Variant: the certificate request ignores includeWWW.
subjectAlternativeNames_Never(p) == << >>

subjectAlternativeNames(p) ==
    IF p.includeWWW THEN <<fullSiteDomain(p)>> ELSE <<>>

siteCertificate(p) ==
    [ id |-> identifyResource(p.resourcePrefix, "site-certificate"),
      domainName |-> siteDomain(p),
      region |-> "us-east-1",
      subjectAlternativeNames |-> subjectAlternativeNames(p) ]

\* Variant: the distribution's aliases ignore includeWWW.
viewerAliases_PrimaryOnly(p) == << siteDomain(p) >>

viewerAliases(p) ==
    IF p.includeWWW THEN <<siteDomain(p), fullSiteDomain(p)>> ELSE <<siteDomain(p)>>

viewerCertificate(p) ==
    [ certificate |-> siteCertificate(p).id,
      sslMethod |-> "SNI",
      securityPolicy |-> "TLS_V1_2_2021",
      aliases |-> viewerAliases(p) ]

siteDistribution(p) ==
    [ id |-> identifyResource(p.resourcePrefix, "site-distribution"),
      viewerCertificate |-> viewerCertificate(p),
      s3BucketSource |-> siteBucket(p).id,
      originAccessIdentity |-> cloudfrontOAI(p).id,
      compress |-> TRUE,
      allowedMethods |-> "GET_HEAD_OPTIONS" ]

\* Variant: the second alias record is declared without testing includeWWW.
siteAliasRecords_Always(p) ==
    << [ id |-> identifyResource(p.resourcePrefix, "site-alias-record-01"),
         recordName |-> siteDomain(p),
         target |-> identifyResource(p.resourcePrefix, "site-distribution") ],
       [ id |-> identifyResource(p.resourcePrefix, "site-alias-record-02"),
         recordName |-> fullSiteDomain(p),
         target |-> identifyResource(p.resourcePrefix, "site-distribution") ] >>

\* The Route53 alias records, in declaration order.
siteAliasRecords(p) ==
    << [ id |-> identifyResource(p.resourcePrefix, "site-alias-record-01"),
         recordName |-> siteDomain(p),
         target |-> siteDistribution(p).id ] >>
    \o (IF p.includeWWW
        THEN << [ id |-> identifyResource(p.resourcePrefix, "site-alias-record-02"),
                  recordName |-> fullSiteDomain(p),
                  target |-> siteDistribution(p).id ] >>
        ELSE << >>)

\* The two CfnOutputs, in declaration order: exportName and value.
siteOutputs(p) ==
    << [ exportName |-> p.staticSiteBucketNameOutputId,
         value |-> Ref(siteBucket(p).id, "bucketName") ],
       [ exportName |-> p.staticSiteDistributionIdOutputId,
         value |-> Ref(siteDistribution(p).id, "distributionId") ] >>

bucketDeployment(p) ==
    [ id |-> identifyResource(p.resourcePrefix, "bucket-deployment"),
      source |-> p.siteSourcePath,
      destinationBucket |-> siteBucket(p).id,
      distribution |-> siteDistribution(p).id,
      distributionPaths |-> <<"/*">> ]

StaticSiteStack(id, p) ==
    [ declared |-> TRUE,
      id |-> id,
      hostedZone |-> [ id |-> identifyResource(p.resourcePrefix, "hosted-zone"),
                       domainName |-> p.hostedZoneName ],
      oai |-> cloudfrontOAI(p),
      bucket |-> siteBucket(p),
      certificate |-> siteCertificate(p),
      distribution |-> siteDistribution(p),
      records |-> siteAliasRecords(p),
      outputs |-> siteOutputs(p),
      deployment |-> bucketDeployment(p) ]

(***************************************************************************)
(* CiCdStack.createBuildProject: build specification, role policies,       *)
(* alerts topic, subscription and the rule on failed builds.               *)
(***************************************************************************)
Command(cmd, target, option) == [cmd |-> cmd, target |-> target, option |-> option]

\* The buildSpec object: the commands of each phase, in order.
buildSpec(distributionId, staticWebsiteBucket) ==
    [ install |-> << Command("npm install", Literal(""), "") >>,
      build |-> << Command("npm run build", Literal(""), "") >>,
      post_build |-> << Command("aws s3 sync", staticWebsiteBucket, "--delete"),
                        Command("aws cloudfront create-invalidation", distributionId,
                                "--paths /*") >> ]

Arn(service, account, resource, suffix) ==
    [service |-> service, account |-> account, resource |-> resource, suffix |-> suffix]

codeBuildS3ListObjectsPolicy(staticWebsiteBucket) ==
    [ effect |-> "Allow",
      actions |-> {"s3:GetObject", "s3:GetBucketLocation", "s3:ListBucket",
                   "s3:PutObject", "s3:DeleteObject", "s3:PutObjectAcl"},
      resources |-> { Arn("s3", Literal(""), staticWebsiteBucket, ""),
                      Arn("s3", Literal(""), staticWebsiteBucket, "/*") } ]

\* Variant: invalidation is allowed on every distribution.
codeBuildCreateInvalidationPolicy_Wildcard(distributionId, account) ==
    [ effect |-> "Allow",
      actions |-> {"cloudfront:CreateInvalidation"},
      resources |-> { Arn("cloudfront", Literal(account), Literal("*"), "") } ]

codeBuildCreateInvalidationPolicy(distributionId, account) ==
    [ effect |-> "Allow",
      actions |-> {"cloudfront:CreateInvalidation"},
      resources |-> { Arn("cloudfront", Literal(account), distributionId, "") } ]

alertsTopic(resourcePrefix) ==
    [ id |-> identifyResource(resourcePrefix, "notifications"),
      topicName |-> identifyResource(resourcePrefix, "notifications"),
      displayName |-> resourcePrefix \o " pipeline failures" ]

alertsSubscription(resourcePrefix, email) ==
    [ id |-> identifyResource(resourcePrefix, "notifications-subscription"),
      protocol |-> "EMAIL",
      endpoint |-> email,
      topic |-> alertsTopic(resourcePrefix).id ]

\* Variant: the rule is registered on succeeded builds.
onBuildFailed_Succeeded(resourcePrefix) ==
    [ id |-> identifyResource(resourcePrefix, "build-failed"),
      source |-> "aws.codebuild",
      project |-> identifyResource(resourcePrefix, "build"),
      buildStatus |-> {"SUCCEEDED"},
      target |-> identifyResource(resourcePrefix, "notifications") ]

\* buildProject.onBuildFailed: a rule on the build project's state changes
\* to FAILED, with the alerts topic as target.
onBuildFailed(resourcePrefix) ==
    [ id |-> identifyResource(resourcePrefix, "build-failed"),
      source |-> "aws.codebuild",
      project |-> identifyResource(resourcePrefix, "build"),
      buildStatus |-> {"FAILED"},
      target |-> alertsTopic(resourcePrefix).id ]

createBuildProject(resourcePrefix, distributionId, staticWebsiteBucket, email, account) ==
    [ id |-> identifyResource(resourcePrefix, "build"),
      buildSpec |-> buildSpec(distributionId, staticWebsiteBucket),
      buildImage |-> "STANDARD_5_0",
      rolePolicy |-> { codeBuildS3ListObjectsPolicy(staticWebsiteBucket),
                       codeBuildCreateInvalidationPolicy(distributionId, account) },
      topic |-> alertsTopic(resourcePrefix),
      subscriptions |-> { alertsSubscription(resourcePrefix, email) },
      rules |-> { onBuildFailed(resourcePrefix) } ]

(***************************************************************************)
(* CiCdStack constructor: source action, build action and the pipeline.    *)
(***************************************************************************)
CiCdStack(id, p) ==
    [ declared |-> TRUE,
      id |-> id,
      sourceAction |-> [ actionName |-> "SOURCE", owner |-> p.repoOwner, repo |-> p.repo,
                         branch |-> p.repoBranch,
                         oauthToken |-> [secretId |-> p.githubTokenSecretId,
                                         jsonField |-> "github-token"] ],
      project |-> createBuildProject(p.resourcePrefix, p.distributionId, p.bucket,
                                     p.buildAlertEmail, p.account),
      pipeline |-> [ id |-> identifyResource(p.resourcePrefix, "pipeline"),
                     pipelineName |-> identifyResource(p.resourcePrefix, "pipeline"),
                     stages |-> << [stageName |-> "Source", actions |-> <<"SOURCE">>],
                                   [stageName |-> "Build", actions |-> <<"BUILD_DEPLOY">>] >> ] ]

(***************************************************************************)
(* Entry point: app, then StaticSiteStack, then CiCdStack.                 *)
(***************************************************************************)
Init ==
    /\ props \in { StaticSiteProps(d, w) : d \in Domains, w \in BOOLEAN }
    /\ pc = "start"
    /\ staticSite = NoStack
    /\ ciCd = NoStack
    /\ status = [static |-> "NONE", cicd |-> "NONE"]
    /\ attempts = [static |-> 0, cicd |-> 0]
    /\ exports = [k \in {} |-> ""]
    /\ publications = << >>
    /\ physical = [bucketName |-> "", distributionId |-> ""]
    /\ resolved = [k \in {} |-> ""]
    /\ execNo = 0
    /\ execState = "IDLE"
    /\ phase = "none"
    /\ cmdIdx = 0
    /\ buildSucceeding = TRUE
    /\ failedFrom = "none"
    /\ issued = << >>
    /\ content = [from |-> 0, complete |-> FALSE]
    /\ contentAtStart = [from |-> 0, complete |-> FALSE]
    /\ notified = 0
    /\ inbox = [e \in {buildAlertEmail} |-> 0]

NewStaticSiteStack ==
    /\ pc = "start"
    /\ staticSite' = StaticSiteStack(identifyResource(staticSiteResourcePrefix, "stack"), props)
    /\ pc' = "static"
    /\ UNCHANGED <<props, ciCd, status, attempts, exports, publications, physical,
                   resolved, execNo, execState, phase, cmdIdx, buildSucceeding,
                   failedFrom, issued, content, contentAtStart, notified, inbox>>

NewCiCdStack ==
    /\ pc = "static"
    /\ ciCd' = CiCdStack(identifyResource(ciCdResourcePrefix, "stack"), CiCdProps)
    /\ pc' = "synth"
    /\ UNCHANGED <<props, staticSite, status, attempts, exports, publications, physical,
                   resolved, execNo, execState, phase, cmdIdx, buildSucceeding,
                   failedFrom, issued, content, contentAtStart, notified, inbox>>

(***************************************************************************)
(* Provisioning of the two synthesized stacks by the provider. Nothing in  *)
(* the entry point orders the two deployments: Fn.importValue is resolved  *)
(* by the provider against the outputs published so far.                   *)
(***************************************************************************)
\* The value of an attribute reference of the hosting stack, given the
\* identifiers phys of its resources.
ResolveRef(r, phys) ==
    IF r.id = staticSite.bucket.id /\ r.attr = "bucketName" THEN phys.bucketName
    ELSE IF r.id = staticSite.distribution.id /\ r.attr = "distributionId"
         THEN phys.distributionId
    ELSE "?"

\* CfnOutput with exportName: the keys a stack publishes, in order.
ExportNames(outs) == [i \in DOMAIN outs |-> outs[i].exportName]

\* Deployment of the hosting stack: on success the resources exist, the
\* BucketDeployment has copied the local site into the bucket and the
\* outputs are published; on failure the stack is rolled back.
DeployStaticSite(ok, distId) ==
    /\ pc = "synth"
    /\ status.static # "COMPLETE"
    /\ attempts.static < MaxAttempts
    /\ attempts' = [attempts EXCEPT !.static = @ + 1]
    /\ IF ok
       THEN LET phys == [bucketName |-> staticSite.bucket.bucketName,
                         distributionId |-> distId]
                outs == staticSite.outputs
                keys == {outs[i].exportName : i \in DOMAIN outs}
            IN /\ status' = [status EXCEPT !.static = "COMPLETE"]
               /\ physical' = phys
               /\ exports' = [k \in (DOMAIN exports) \cup keys |->
                                IF k \in keys
                                THEN ResolveRef(outs[CHOOSE i \in DOMAIN outs :
                                                       outs[i].exportName = k].value, phys)
                                ELSE exports[k]]
               /\ publications' = publications \o ExportNames(outs)
               /\ content' = [from |-> 0, complete |-> TRUE]
       ELSE /\ status' = [status EXCEPT !.static = "FAILED"]
            /\ UNCHANGED <<physical, exports, publications, content>>
    /\ UNCHANGED <<props, pc, staticSite, ciCd, resolved, execNo, execState, phase,
                   cmdIdx, buildSucceeding, failedFrom, issued, contentAtStart,
                   notified, inbox>>

\* Every provider-resolved value the pipeline stack's resources mention.
Tokens(c) ==
    LET spec == c.project.buildSpec
        cmds == {spec.install[i] : i \in DOMAIN spec.install}
                \cup {spec.build[i] : i \in DOMAIN spec.build}
                \cup {spec.post_build[i] : i \in DOMAIN spec.post_build}
        arns == UNION {st.resources : st \in c.project.rolePolicy}
    IN {cm.target : cm \in cmds} \cup {a.resource : a \in arns} \cup {a.account : a \in arns}

\* The output keys the pipeline stack imports.
Imports(c) == {t.id : t \in {u \in Tokens(c) : u.kind = "import"}}

\* Deployment of the pipeline stack: every Fn.importValue must name an
\* output that is published, or the deployment fails and is rolled back.
DeployCiCd(ok) ==
    /\ pc = "synth"
    /\ status.cicd # "COMPLETE"
    /\ attempts.cicd < MaxAttempts
    /\ attempts' = [attempts EXCEPT !.cicd = @ + 1]
    /\ IF ok /\ Imports(ciCd) \subseteq DOMAIN exports
       THEN /\ status' = [status EXCEPT !.cicd = "COMPLETE"]
            /\ resolved' = [k \in Imports(ciCd) |-> exports[k]]
       ELSE /\ status' = [status EXCEPT !.cicd = "FAILED"]
            /\ UNCHANGED resolved
    /\ UNCHANGED <<props, pc, staticSite, ciCd, exports, publications, physical,
                   execNo, execState, phase, cmdIdx, buildSucceeding, failedFrom,
                   issued, content, contentAtStart, notified, inbox>>

(***************************************************************************)
(* Pipeline executions: the Source stage, then the Build stage running the *)
(* phases of the build specification.                                      *)
(***************************************************************************)
ResolveToken(t) ==
    IF t.kind = "import" THEN resolved[t.id] ELSE t.id

\* Publications to the alerts topic an event causes: one per rule of the
\* build project that matches the event and targets the topic.
Publications(event) ==
    Cardinality({ r \in ciCd.project.rules :
                    /\ r.source = event.source
                    /\ r.project = event.project
                    /\ event.buildStatus \in r.buildStatus
                    /\ r.target = ciCd.project.topic.id })

\* Delivery of n publications to the subscribers of the alerts topic.
Deliver(n) ==
    [e \in DOMAIN inbox |->
        IF \E sub \in ciCd.project.subscriptions :
              sub.endpoint = e /\ sub.topic = ciCd.project.topic.id
        THEN inbox[e] + n ELSE inbox[e]]

BuildEvent(st) ==
    [source |-> "aws.codebuild", project |-> ciCd.project.id, buildStatus |-> st]
PipelineEvent(st) ==
    [source |-> "aws.codepipeline", project |-> ciCd.pipeline.id, buildStatus |-> st]

\* A change of the watched branch starts an execution.
SourceChange ==
    /\ status.cicd = "COMPLETE"
    /\ execState \in {"IDLE", "SUCCEEDED", "FAILED"}
    /\ execNo < MaxExecutions
    /\ execNo' = execNo + 1
    /\ execState' = "SOURCE_FETCHING"
    /\ phase' = "none"
    /\ cmdIdx' = 0
    /\ buildSucceeding' = TRUE
    /\ failedFrom' = "none"
    /\ issued' = << >>
    /\ contentAtStart' = content
    /\ notified' = 0
    /\ UNCHANGED <<props, pc, staticSite, ciCd, status, attempts, exports, publications,
                   physical, resolved, content, inbox>>

\* Stage Source: the GitHub source action succeeds or fails. Its failure is
\* a failure of the pipeline's action, not of a build of the build project.
SourceAction(ok) ==
    /\ execState = "SOURCE_FETCHING"
    /\ IF ok
       THEN /\ execState' = "BUILDING"
            /\ phase' = "install"
            /\ cmdIdx' = 1
            /\ UNCHANGED <<failedFrom, notified, inbox>>
       ELSE /\ execState' = "FAILED"
            /\ failedFrom' = "SOURCE_FETCHING"
            /\ notified' = notified + Publications(PipelineEvent("FAILED"))
            /\ inbox' = Deliver(Publications(PipelineEvent("FAILED")))
            /\ UNCHANGED <<phase, cmdIdx>>
    /\ UNCHANGED <<props, pc, staticSite, ciCd, status, attempts, exports, publications,
                   physical, resolved, execNo, buildSucceeding, issued, content,
                   contentAtStart>>

\* The build service's phase transitions. A failed install phase ends the
\* build; a failed build phase still runs post_build (the build specification
\* sets no on-failure and tests no build status in post_build); post_build
\* ends the build.
PhaseOnSuccess(ph) ==
    IF ph = "install" THEN "build" ELSE IF ph = "build" THEN "post_build" ELSE "done"
PhaseOnFailure(ph) ==
    IF ph = "build" THEN "post_build" ELSE "done"

\* The execution state a phase of the build specification belongs to:
\* post_build holds the deploy commands.
StateOfPhase(ph) ==
    IF ph = "post_build" THEN "DEPLOYING" ELSE "BUILDING"

\* Stage Build: the next command of the running phase is run and succeeds
\* or fails. A failing command fails its phase, whose remaining commands are
\* skipped. A failing sync may have changed the bucket already (partial).
\* The build ends FAILED when any phase failed; the end of the build is the
\* build project's state-change event.
RunCommand(ok, partial) ==
    /\ execState \in {"BUILDING", "DEPLOYING"}
    /\ LET cmds == ciCd.project.buildSpec[phase]
           c == cmds[cmdIdx]
           target == ResolveToken(c.target)
           succeeding == buildSucceeding /\ ok
           next == IF ok
                   THEN (IF cmdIdx < Len(cmds) THEN phase ELSE PhaseOnSuccess(phase))
                   ELSE PhaseOnFailure(phase)
           final == IF succeeding THEN "SUCCEEDED" ELSE "FAILED"
       IN /\ issued' = Append(issued, [cmd |-> c.cmd, target |-> target,
                                        option |-> c.option, ok |-> ok])
          /\ content' = IF c.cmd = "aws s3 sync" /\ target = physical.bucketName
                        THEN (IF ok THEN [from |-> execNo, complete |-> buildSucceeding]
                              ELSE IF partial THEN [from |-> execNo, complete |-> FALSE]
                              ELSE content)
                        ELSE content
          /\ buildSucceeding' = succeeding
          /\ failedFrom' = IF ~ok /\ failedFrom = "none" THEN execState ELSE failedFrom
          /\ IF next = "done"
             THEN /\ execState' = final
                  /\ phase' = "none"
                  /\ cmdIdx' = 0
                  /\ notified' = notified + Publications(BuildEvent(final))
                  /\ inbox' = Deliver(Publications(BuildEvent(final)))
             ELSE /\ execState' = StateOfPhase(next)
                  /\ phase' = next
                  /\ cmdIdx' = IF next = phase THEN cmdIdx + 1 ELSE 1
                  /\ UNCHANGED <<notified, inbox>>
    /\ UNCHANGED <<props, pc, staticSite, ciCd, status, attempts, exports, publications,
                   physical, resolved, execNo, contentAtStart>>

Next ==
    \/ NewStaticSiteStack
    \/ NewCiCdStack
    \/ \E ok \in BOOLEAN, distId \in DistributionIds : DeployStaticSite(ok, distId)
    \/ \E ok \in BOOLEAN : DeployCiCd(ok)
    \/ SourceChange
    \/ \E ok \in BOOLEAN : SourceAction(ok)
    \/ \E ok \in BOOLEAN, partial \in BOOLEAN : RunCommand(ok, partial)

Spec == Init /\ [][Next]_vars

(***************************************************************************)
(* Properties.                                                             *)
(***************************************************************************)
Range(seq) == {seq[i] : i \in DOMAIN seq}
NoDuplicates(seq) == \A i, j \in DOMAIN seq : seq[i] = seq[j] => i = j

\* The www. domain of the deployment, derived from the parameters alone.
WwwDomain == "www." \o props.domainName

DnsNames == {r.recordName : r \in Range(staticSite.records)}
CertificateNames ==
    {staticSite.certificate.domainName}
        \cup Range(staticSite.certificate.subjectAlternativeNames)
DistributionAliases == Range(staticSite.distribution.viewerCertificate.aliases)

\* C2: with includeWWW = true, the DNS alias records and the certificate's
\* subject alternative names both contain the www. domain, and the names of
\* the two layers are the same set {domain, www.domain}.
C2_WwwOnCertificateAndDns ==
    (staticSite.declared /\ props.includeWWW) =>
        /\ WwwDomain \in Range(staticSite.certificate.subjectAlternativeNames)
        /\ WwwDomain \in DnsNames
        /\ DnsNames = {props.domainName, WwwDomain}
        /\ CertificateNames = DnsNames

C2_Witness ==
    /\ staticSite.declared
    /\ props.includeWWW
    /\ props.domainName = "example.com"
    /\ DnsNames = {"example.com", "www.example.com"}

\* Every domain name some resource of the hosting topology is given.
NamedDomains ==
    {staticSite.bucket.bucketName, staticSite.hostedZone.domainName}
        \cup CertificateNames \cup DistributionAliases \cup DnsNames

\* C3: with includeWWW = false, there is exactly one DNS alias record, for
\* the primary domain, the certificate has no subject alternative name, and
\* no resource names the www. domain.
C3_NoWwwResources ==
    (staticSite.declared /\ ~props.includeWWW) =>
        /\ Len(staticSite.records) = 1
        /\ staticSite.records[1].recordName = props.domainName
        /\ staticSite.certificate.subjectAlternativeNames = << >>
        /\ WwwDomain \notin NamedDomains

C3_Witness ==
    /\ staticSite.declared
    /\ ~props.includeWWW
    /\ props.domainName = "example.com"
    /\ DnsNames = {"example.com"}

\* C10: for both values of includeWWW, the aliases of the distribution's
\* viewer certificate, the DNS alias record names and the names the
\* certificate covers are one and the same set.
C10_AliasSetsAgree ==
    staticSite.declared =>
        /\ DistributionAliases = DnsNames
        /\ DnsNames = CertificateNames
        /\ (WwwDomain \in DistributionAliases) = props.includeWWW

C10_Witness ==
    /\ staticSite.declared
    /\ props.includeWWW
    /\ WwwDomain \in DistributionAliases
    /\ Len(staticSite.records) = 2

LogicalNames ==
    { "bucket-name", "distribution-id", "stack",
      "hosted-zone", "cloudfront-OAI", "site-bucket", "site-certificate",
      "site-distribution", "site-alias-record-01", "site-alias-record-02",
      "bucket-deployment",
      "pipeline", "build", "notifications", "notifications-subscription",
      "build-failed" }
Prefixes == {staticSiteResourcePrefix, ciCdResourcePrefix}

\* The construct identifiers of each declared stack, in declaration order.
StaticSiteIds ==
    << staticSite.hostedZone.id, staticSite.oai.id, staticSite.bucket.id,
       staticSite.outputs[1].exportName, staticSite.certificate.id,
       staticSite.distribution.id, staticSite.outputs[2].exportName >>
    \o [i \in DOMAIN staticSite.records |-> staticSite.records[i].id]
    \o << staticSite.deployment.id >>
CiCdIds ==
    {ciCd.pipeline.id, ciCd.project.id, ciCd.project.topic.id}
        \cup {sub.id : sub \in ciCd.project.subscriptions}
        \cup {r.id : r \in ciCd.project.rules}

\* C7: under one prefix two distinct logical names never give the same
\* identifier, the identifier is prefix, "-", logical name, and so the
\* identifiers each stack declares are pairwise distinct.
C7_IdentifyInjective ==
    /\ \A pre \in Prefixes : \A a, b \in LogicalNames :
          identifyResource(pre, a) = identifyResource(pre, b) => a = b
    /\ identifyResource("cdk-web-static", "bucket-name") = "cdk-web-static-bucket-name"
    /\ staticSite.declared =>
          /\ NoDuplicates(StaticSiteIds)
          /\ staticSite.id = "cdk-web-static-stack"
          /\ staticSite.outputs[1].exportName = "cdk-web-static-bucket-name"
    /\ ciCd.declared =>
          /\ Cardinality(CiCdIds) = 3 + Cardinality(ciCd.project.subscriptions)
                                       + Cardinality(ciCd.project.rules)
          /\ ciCd.pipeline.pipelineName = "cdk-web-cicd-pipeline"

C7_Witness ==
    /\ staticSite.declared
    /\ ciCd.declared
    /\ props.includeWWW
    /\ Len(StaticSiteIds) = 10
    /\ staticSite.outputs[2].exportName = "cdk-web-static-distribution-id"

\* The keys under which the hosting topology publishes the bucket's name and
\* the distribution's id.
BucketNameKeys ==
    {o.exportName : o \in {x \in Range(staticSite.outputs) :
                              x.value = Ref(staticSite.bucket.id, "bucketName")}}
DistributionIdKeys ==
    {o.exportName : o \in {x \in Range(staticSite.outputs) :
                              x.value = Ref(staticSite.distribution.id, "distributionId")}}

DeployCommands == Range(ciCd.project.buildSpec.post_build)
RoleArns == UNION {st.resources : st \in ciCd.project.rolePolicy}
IsImportOf(t, keys) == t.kind = "import" /\ keys = {t.id}

\* C4: the bucket and the distribution the pipeline topology uses are
\* imports of the hosting topology's outputs, each by the key the hosting
\* topology publishes it under, and not swapped: in the sync command, the
\* invalidation command and the role's resource ARNs; so every sync issued
\* names the hosting bucket and every invalidation the hosting distribution.
C4_IdentifiersAreReferences ==
    ciCd.declared =>
        /\ \E c \in DeployCommands : c.cmd = "aws s3 sync"
        /\ \E c \in DeployCommands : c.cmd = "aws cloudfront create-invalidation"
        /\ \A c \in DeployCommands :
              /\ c.cmd = "aws s3 sync" => IsImportOf(c.target, BucketNameKeys)
              /\ c.cmd = "aws cloudfront create-invalidation" =>
                    IsImportOf(c.target, DistributionIdKeys)
        /\ \A a \in RoleArns :
              /\ a.service = "s3" => IsImportOf(a.resource, BucketNameKeys)
              /\ a.service = "cloudfront" => IsImportOf(a.resource, DistributionIdKeys)
        /\ \A i \in DOMAIN issued :
              /\ issued[i].cmd = "aws s3 sync" =>
                    issued[i].target = physical.bucketName
              /\ issued[i].cmd = "aws cloudfront create-invalidation" =>
                    issued[i].target = physical.distributionId

C4_Witness ==
    /\ \E i \in DOMAIN issued :
          issued[i].cmd = "aws s3 sync" /\ issued[i].target = "app.example.org"
    /\ \E i \in DOMAIN issued :
          issued[i].cmd = "aws cloudfront create-invalidation"
             /\ issued[i].target = "E2GHIJKL"

\* C5: the pipeline stack is provisioned, and its imports resolved, only
\* when the hosting stack has completed provisioning and published the
\* outputs; the resolved values are the published ones; no execution runs
\* before; and no output key is published twice.
C5_CrossStackOrdering ==
    /\ status.cicd = "COMPLETE" =>
          /\ status.static = "COMPLETE"
          /\ \A k \in DOMAIN resolved : k \in DOMAIN exports /\ resolved[k] = exports[k]
          /\ DOMAIN resolved = {STATIC_SITE_BUCKET_NAME_OUTPUT_ID,
                                STATIC_SITE_DISTRIBUTION_ID_OUTPUT_ID}
    /\ status.static # "COMPLETE" => (DOMAIN exports = {} /\ DOMAIN resolved = {})
    /\ execNo > 0 => status.static = "COMPLETE"
    /\ NoDuplicates(publications)

\* The pipeline stack was refused once, before the outputs existed, and
\* provisioned afterwards.
C5_Witness ==
    /\ status.cicd = "COMPLETE"
    /\ attempts.cicd > 1
    /\ Len(publications) = 2

ObjectActions == {"s3:GetObject", "s3:PutObject", "s3:DeleteObject", "s3:PutObjectAcl"}

\* Every statement names the one bucket or the one distribution of the
\* hosting topology, none a wildcard resource.
RoleStatementsScoped ==
    /\ \A a \in RoleArns :
          /\ a.resource # Literal("*")
          /\ a.service = "s3" =>
                IsImportOf(a.resource, BucketNameKeys) /\ a.suffix \in {"", "/*"}
          /\ a.service = "cloudfront" =>
                /\ IsImportOf(a.resource, DistributionIdKeys)
                /\ a.account = Literal(accountId)
                /\ a.suffix = ""
    /\ status.cicd = "COMPLETE" =>
          \A a \in RoleArns :
              /\ a.service = "s3" => ResolveToken(a.resource) = physical.bucketName
              /\ a.service = "cloudfront" =>
                    ResolveToken(a.resource) = physical.distributionId

\* C8 as stated: the role is granted object read, write, delete and ACL on
\* the bucket and invalidation creation on the distribution, nothing more,
\* every statement scoped.
C8_ExactlyObjectAndInvalidation ==
    ciCd.declared =>
        /\ UNION {st.actions : st \in ciCd.project.rolePolicy}
              = ObjectActions \cup {"cloudfront:CreateInvalidation"}
        /\ RoleStatementsScoped

\* C8, amended: the stack attaches two statements to the role: the six S3
\* actions (object read, write, delete, ACL, and bucket listing and bucket
\* location) on the bucket and its objects, and invalidation creation on the
\* distribution; every statement scoped, none a wildcard.
C8_Amended ==
    ciCd.declared =>
        /\ Cardinality(ciCd.project.rolePolicy) = 2
        /\ \A st \in ciCd.project.rolePolicy :
              /\ st.effect = "Allow"
              /\ \/ /\ st.actions = ObjectActions
                                       \cup {"s3:ListBucket", "s3:GetBucketLocation"}
                    /\ {a.service : a \in st.resources} = {"s3"}
                    /\ {a.suffix : a \in st.resources} = {"", "/*"}
                 \/ /\ st.actions = {"cloudfront:CreateInvalidation"}
                    /\ {a.service : a \in st.resources} = {"cloudfront"}
                    /\ Cardinality(st.resources) = 1
        /\ RoleStatementsScoped

C8_Witness ==
    /\ status.cicd = "COMPLETE"
    /\ \E a \in RoleArns : a.service = "cloudfront"
                             /\ ResolveToken(a.resource) = "E1ABCDEF"
    /\ \E a \in RoleArns : a.service = "s3" /\ a.suffix = "/*"
                             /\ ResolveToken(a.resource) = "example.com"

IsDeploy(run) == run.cmd \in {"aws s3 sync", "aws cloudfront create-invalidation"}
DeployIssued == \E i \in DOMAIN issued : IsDeploy(issued[i])

\* C1 as stated: an execution that ends FAILED has issued neither the sync
\* nor the invalidation and has left the bucket's content as it found it;
\* the two are issued only after install and build both succeeded.
C1_FailedBuildNeverDeploys ==
    /\ execState = "FAILED" => (~DeployIssued /\ content = contentAtStart)
    /\ \A i \in DOMAIN issued :
          IsDeploy(issued[i]) =>
              /\ \E j \in 1..(i - 1) : issued[j].cmd = "npm install" /\ issued[j].ok
              /\ \E j \in 1..(i - 1) : issued[j].cmd = "npm run build" /\ issued[j].ok

\* C6 as stated: whatever state an execution fails from, its failure is
\* published to the alerts topic and delivered to the alert address.
C6_EveryFailureNotifies ==
    execState = "FAILED" => (notified >= 1 /\ inbox[buildAlertEmail] >= 1)

\* C6, amended: a failure of the Build stage (from BUILDING or DEPLOYING)
\* publishes once to the alerts topic, which delivers to the alert address;
\* a failure of the Source stage publishes nothing; a failed execution stays
\* failed, and only a new change of the source starts the next execution.
C6_Amended ==
    [][ /\ (execState # "FAILED" /\ execState' = "FAILED") =>
              IF execState \in {"BUILDING", "DEPLOYING"}
              THEN /\ notified' = 1
                   /\ inbox'[buildAlertEmail] = inbox[buildAlertEmail] + 1
                   /\ failedFrom' \in {"BUILDING", "DEPLOYING"}
              ELSE /\ execState = "SOURCE_FETCHING"
                   /\ notified' = 0
                   /\ inbox' = inbox
        /\ (execState = "FAILED" /\ execState' # "FAILED") =>
              /\ execState' = "SOURCE_FETCHING"
              /\ execNo' = execNo + 1
              /\ content' = content
        /\ execState' = "SUCCEEDED" => (notified' = 0 /\ inbox' = inbox)
      ]_vars

C6_Witness ==
    /\ execState = "FAILED"
    /\ failedFrom = "DEPLOYING"
    /\ notified = 1
    /\ execNo = 2
    /\ inbox[buildAlertEmail] = 2

====
